---- MODULE Spec2Model ----
(***************************************************************************)
(* A model of BlendShapeGroups (blendshape_groups.py): the group/target   *)
(* hierarchy kept in a blendShape node's targetDirectory and              *)
(* parentDirectory multi-attributes.                                       *)
(*                                                                         *)
(* The node's attribute storage is the state.  A group record is an       *)
(* element targetDirectory[g] with the fields parentIndex, childIndices   *)
(* and directoryName; a target record is an element parentDirectory[t].   *)
(* In a child list a group g is the entry -g and a target t the entry t,  *)
(* so the entry 0 is both the root group's and target 0's.                *)
(*                                                                         *)
(* What the host does with the attributes is taken as follows: an element *)
(* that does not exist reads as its default value (0, the empty array,    *)
(* the empty string) and is not created by the read; writing a field of   *)
(* an element that does not exist creates the element; the root's         *)
(* parentIndex is the default 0; a fresh group index is the first unused  *)
(* one after the root's.                                                   *)
(*                                                                         *)
(* Every method is an operator from a store to a Result, written loop by  *)
(* loop after the Python, and an action of the state machine applies it   *)
(* to arguments drawn from the bounded index sets.                        *)
(*                                                                         *)
(* Spec makes whole calls.  SpecDelete runs delete_grp one statement at a *)
(* time, with host failures; SpecRace runs two move_targets calls one     *)
(* store read or write at a time under a free scheduler.                  *)
(***************************************************************************)
EXTENDS Integers, Sequences, FiniteSets, TLC

(* ---------------------------- bounds ----------------------------------- *)
MaxGrp == 2
MaxTgt == 1
MaxBatch == 2
MaxCalls == 3

GrpIds == 0..MaxGrp
TgtIds == 0..MaxTgt
Names == {"a"}

VARIABLES st, pre, call, ret, ncalls, frames, procs, overlapped
vars == <<st, pre, call, ret, ncalls, frames, procs, overlapped>>

(* ------------------------- list helpers -------------------------------- *)
\* x in lst
InList(lst, x) == \E i \in 1..Len(lst) : lst[i] = x

\* lst.index(x), for x in lst (1-based)
ListIndex(lst, x) == CHOOSE i \in 1..Len(lst) : lst[i] = x /\ \A j \in 1..(i-1) : lst[j] # x

\* lst.pop(i)
ListPopAt(lst, i) == SubSeq(lst, 1, i-1) \o SubSeq(lst, i+1, Len(lst))

\* lst.pop(lst.index(x))
ListPop(lst, x) == ListPopAt(lst, ListIndex(lst, x))

\* number of occurrences of x in lst
Count(lst, x) == Cardinality({i \in 1..Len(lst) : lst[i] = x})

\* the argument lists over S of at most n elements: every list of at most two
\* elements, and the longer lists that name no element twice
ListsUpTo(S, n) ==
  {lst \in UNION {[1..k -> S] : k \in 0..n} :
     Len(lst) <= 2 \/ \A i, j \in 1..Len(lst) : lst[i] = lst[j] => i = j}

(* --------------------- attribute storage primitives -------------------- *)
DefaultName == ""

EmptyStore ==
  [grps |-> {}, parent |-> [g \in GrpIds |-> 0], children |-> [g \in GrpIds |-> <<>>],
   name |-> [g \in GrpIds |-> DefaultName], tgts |-> {}, tparent |-> [t \in TgtIds |-> 0]]

_get_grp_parent(s, g) == s.parent[g]

_set_grp_parent(s, g, p) == [s EXCEPT !.parent[g] = p, !.grps = @ \cup {g}]

_get_grp_children(s, g) == s.children[g]

_set_grp_children(s, g, lst) == [s EXCEPT !.children[g] = lst, !.grps = @ \cup {g}]

get_directory_name(s, g) == s.name[g]

set_directory_name(s, g, n) == [s EXCEPT !.name[g] = n, !.grps = @ \cup {g}]

get_parent_directory(s, t) == s.tparent[t]

set_parent_directory(s, t, p) == [s EXCEPT !.tparent[t] = p, !.tgts = @ \cup {t}]

\* cmds.removeMultiInstance(targetDirectory[g], b=True)
remove_grp_record(s, g) ==
  [s EXCEPT !.grps = @ \ {g}, !.parent[g] = 0, !.children[g] = <<>>, !.name[g] = DefaultName]

_grp_exists(s, g) == g \in s.grps

\* blendShapeUnusedTargetDirectoryIndex: the first unused slot after the root's
_next_grp_index(s) == CHOOSE k \in 1..(MaxGrp+1) : k \notin s.grps /\ \A j \in 1..(k-1) : j \in s.grps

(* ------------------------------ results -------------------------------- *)
\* the outcome of a call: the store it leaves, the exception it raised ("" if
\* none), the value it returned and the indices cmds.warning was issued for
Result(s, err, idx, nm, lst, warned) ==
  [st |-> s, err |-> err, idx |-> idx, name |-> nm, list |-> lst, warned |-> warned]

Ok(s) == Result(s, "", 0, "", <<>>, <<>>)

Raise(s, err) == Result(s, err, 0, "", <<>>, <<>>)

\* Python's recursion limit, as a depth no loop-free hierarchy reaches
RecursionLimit == MaxGrp + 1

(* ---------------------------- validation ------------------------------- *)
\* TRUE iff _check_grp_validation raises ValueError
_check_grp_validation(s, g) == ~_grp_exists(s, g)

(* ------------------------- _build_unique_name -------------------------- *)
\* the names of the groups listed (as negative entries) in a child list
existing_names(s, parent_children) ==
  {get_directory_name(s, -parent_children[i]) : i \in {j \in 1..Len(parent_children) : parent_children[j] < 0}}

RECURSIVE unique_name_loop(_, _, _, _)
unique_name_loop(existing, name, new_name, num) ==
  IF new_name \in existing
  THEN unique_name_loop(existing, name, name \o ToString(num), num + 1)
  ELSE new_name

_build_unique_name(s, grp_index, name) ==
  unique_name_loop(existing_names(s, _get_grp_children(s, grp_index)), name, name, 1)

(* ------------------------- _grp_parent_iterator ------------------------ *)
RECURSIVE _grp_parent_iterator(_, _, _)
_grp_parent_iterator(s, grp_index, depth) ==
  LET parent_index == _get_grp_parent(s, grp_index) IN
  IF parent_index > 0 /\ depth > 0
  THEN <<parent_index>> \o _grp_parent_iterator(s, parent_index, depth - 1)
  ELSE <<>>

\* the walk up the parents never reaches a parent <= 0
parent_walk_overflows(s, grp_index) ==
  Len(_grp_parent_iterator(s, grp_index, RecursionLimit)) >= RecursionLimit

(* ------------------------------ queries -------------------------------- *)
get_all_grp_indices(s) == s.grps

get_grp_count(s) == Cardinality(get_all_grp_indices(s))

get_all_target_indices(s) == s.tgts

negated_negatives(lst) == SelectSeq([i \in 1..Len(lst) |-> -lst[i]], LAMBDA x : x > 0)

get_grp_indices(s, grp_index) ==
  IF _check_grp_validation(s, grp_index) THEN Raise(s, "ValueError")
  ELSE Result(s, "", 0, "", negated_negatives(_get_grp_children(s, grp_index)), <<>>)

get_grp_target_indices(s, grp_index) ==
  IF _check_grp_validation(s, grp_index) THEN Raise(s, "ValueError")
  ELSE Result(s, "", 0, "", SelectSeq(_get_grp_children(s, grp_index), LAMBDA x : x >= 0), <<>>)

get_grp_name(s, grp_index) ==
  IF _check_grp_validation(s, grp_index) THEN Raise(s, "ValueError")
  ELSE Result(s, "", 0, get_directory_name(s, grp_index), <<>>, <<>>)

(* ------------------------------ move_grps ------------------------------ *)
\* the loop "for index in reversed(indices)" that pops the rejected elements
\* from the list it walks; i is the reversed iterator's position
RECURSIVE reject_loop(_, _, _, _, _)
reject_loop(indices, i, grp_index, conflict_indices, warned) ==
  IF i < 1 \/ i > Len(indices) THEN [indices |-> indices, warned |-> warned]
  ELSE LET index == indices[i] IN
       IF index = grp_index \/ InList(conflict_indices, index)
       THEN reject_loop(ListPop(indices, index), i - 1, grp_index, conflict_indices, Append(warned, index))
       ELSE reject_loop(indices, i - 1, grp_index, conflict_indices, warned)

\* the loop that removes each element from its old parent's child list
RECURSIVE detach_loop(_, _, _)
detach_loop(s, indices, i) ==
  IF i > Len(indices) THEN s
  ELSE LET index == indices[i]
           old_parent_index == _get_grp_parent(s, index)
           parent_child_indices == _get_grp_children(s, old_parent_index)
           popped == IF InList(parent_child_indices, -index)
                     THEN ListPop(parent_child_indices, -index)
                     ELSE parent_child_indices
       IN detach_loop(_set_grp_children(s, old_parent_index, popped), indices, i + 1)

\* the loop without its "if -index not in child_indices" test
RECURSIVE attach_loop_always_append(_, _, _, _, _)
attach_loop_always_append(s, child_indices, indices, i, grp_index) ==
  IF i > Len(indices) THEN _set_grp_children(s, grp_index, child_indices)
  ELSE LET index == indices[i] IN
       attach_loop_always_append(_set_grp_parent(s, index, grp_index),
                                 Append(child_indices, -index), indices, i + 1, grp_index)

\* the loop that appends each element to the new parent's list and sets its
\* parent, followed by the write of the new parent's list
RECURSIVE attach_loop(_, _, _, _, _)
attach_loop(s, child_indices, indices, i, grp_index) ==
  IF i > Len(indices) THEN _set_grp_children(s, grp_index, child_indices)
  ELSE LET index == indices[i] IN
       attach_loop(_set_grp_parent(s, index, grp_index),
                   IF InList(child_indices, -index) THEN child_indices ELSE Append(child_indices, -index),
                   indices, i + 1, grp_index)

move_grps(s, indices, grp_index) ==
  IF _check_grp_validation(s, grp_index) THEN Raise(s, "ValueError")
  ELSE IF parent_walk_overflows(s, grp_index) THEN Raise(s, "RecursionError")
  ELSE LET conflict_indices == _grp_parent_iterator(s, grp_index, RecursionLimit)
           kept == reject_loop(indices, Len(indices), grp_index, conflict_indices, <<>>)
           s1 == detach_loop(s, kept.indices, 1)
           s2 == attach_loop(s1, _get_grp_children(s1, grp_index), kept.indices, 1, grp_index)
       IN Result(s2, "", 0, "", <<>>, kept.warned)

(* ----------------------------- move_targets ---------------------------- *)
\* a move_targets that never adds to the list it writes back
append_never(child_indices, index) == child_indices

\* "if index not in child_indices: child_indices.append(index)"
append_if_absent(child_indices, index) ==
  IF InList(child_indices, index) THEN child_indices ELSE Append(child_indices, index)

\* the loop without its "if index not in child_indices" test
RECURSIVE targets_loop_always_append(_, _, _, _, _)
targets_loop_always_append(s, child_indices, indices, i, grp_index) ==
  IF i > Len(indices) THEN _set_grp_children(s, grp_index, child_indices)
  ELSE LET index == indices[i]
           old_parent_index == get_parent_directory(s, index)
           parent_child_indices == _get_grp_children(s, old_parent_index)
           s1 == IF InList(parent_child_indices, index)
                 THEN _set_grp_children(s, old_parent_index, ListPop(parent_child_indices, index))
                 ELSE s
       IN targets_loop_always_append(set_parent_directory(s1, index, grp_index),
                                     Append(child_indices, index), indices, i + 1, grp_index)

\* the loop without the removal from the old parent's list
RECURSIVE targets_loop_keep_old(_, _, _, _, _)
targets_loop_keep_old(s, child_indices, indices, i, grp_index) ==
  IF i > Len(indices) THEN _set_grp_children(s, grp_index, child_indices)
  ELSE LET index == indices[i]
           appended == IF InList(child_indices, index) THEN child_indices ELSE Append(child_indices, index)
       IN targets_loop_keep_old(set_parent_directory(s, index, grp_index), appended, indices, i + 1, grp_index)

RECURSIVE targets_loop(_, _, _, _, _)
targets_loop(s, child_indices, indices, i, grp_index) ==
  IF i > Len(indices) THEN _set_grp_children(s, grp_index, child_indices)
  ELSE LET index == indices[i]
           appended == append_if_absent(child_indices, index)
           old_parent_index == get_parent_directory(s, index)
           parent_child_indices == _get_grp_children(s, old_parent_index)
           s1 == IF InList(parent_child_indices, index)
                 THEN _set_grp_children(s, old_parent_index, ListPop(parent_child_indices, index))
                 ELSE s
       IN targets_loop(set_parent_directory(s1, index, grp_index), appended, indices, i + 1, grp_index)

\* move_targets without its _check_grp_validation call
move_targets_unchecked(s, indices, grp_index) ==
  Ok(targets_loop(s, _get_grp_children(s, grp_index), indices, 1, grp_index))

move_targets(s, indices, grp_index) ==
  IF _check_grp_validation(s, grp_index) THEN Raise(s, "ValueError")
  ELSE Ok(targets_loop(s, _get_grp_children(s, grp_index), indices, 1, grp_index))

(* ------------------------------ rename_grp ----------------------------- *)
rename_grp(s, grp_index, name) ==
  IF _check_grp_validation(s, grp_index) THEN Raise(s, "ValueError")
  ELSE LET parent_index == _get_grp_parent(s, grp_index)
           new_name == _build_unique_name(s, parent_index, name)
       IN Result(set_directory_name(s, grp_index, new_name), "", 0, new_name, <<>>, <<>>)

(* ------------------------------ create_grp ----------------------------- *)
\* create_grp without the placing of its targets
create_grp_no_targets(s, parent_grp_index, targets, name) ==
  LET new_grp_index == _next_grp_index(s)
      moved == move_grps(s, <<new_grp_index>>, parent_grp_index)
  IN IF moved.err # "" THEN moved
     ELSE LET s1 == _set_grp_parent(moved.st, new_grp_index, parent_grp_index)
              renamed == rename_grp(s1, new_grp_index, name)
          IN IF renamed.err # "" THEN renamed
             ELSE Result(renamed.st, "", new_grp_index, "", <<>>, moved.warned)

create_grp(s, parent_grp_index, targets, name) ==
  LET new_grp_index == _next_grp_index(s)
      moved == move_grps(s, <<new_grp_index>>, parent_grp_index)
  IN IF moved.err # "" THEN moved
     ELSE LET s1 == _set_grp_parent(moved.st, new_grp_index, parent_grp_index)
              renamed == rename_grp(s1, new_grp_index, name)
          IN IF renamed.err # "" THEN renamed
             ELSE LET placed == move_targets(renamed.st, targets, new_grp_index)
                  IN IF placed.err # "" THEN placed
                     ELSE Result(placed.st, "", new_grp_index, "", <<>>, moved.warned)

(* ------------------------ delete_target, delete_grp -------------------- *)
\* blendShapeDeleteTargetGroup, the host's procedure: it removes the target's
\* record; whether it also takes the target out of its group's child list is
\* the host's affair (clean)
blendShapeDeleteTargetGroup(s, index, clean) ==
  IF index \notin s.tgts THEN s
  ELSE LET owner == get_parent_directory(s, index)
           owned == _get_grp_children(s, owner)
           s1 == IF clean /\ InList(owned, index)
                 THEN [s EXCEPT !.children[owner] = SelectSeq(owned, LAMBDA x : x # index)]
                 ELSE s
       IN [s1 EXCEPT !.tgts = @ \ {index}, !.tparent[index] = 0]

\* a delete_target that takes the target out of its group's list itself
delete_target_detaching(s, index, clean) == blendShapeDeleteTargetGroup(s, index, TRUE)

\* the call of the host's procedure is all of it
delete_target(s, index, clean) == blendShapeDeleteTargetGroup(s, index, clean)

\* a delete_grp that leaves the group in its parent's list
detach_from_parent_skipped(s, grp_index) == s

\* "Remove group from its parent": the group's entry leaves its parent's list
detach_from_parent(s, grp_index) ==
  LET parent_grp_index == _get_grp_parent(s, grp_index)
      parent_grp_children == _get_grp_children(s, parent_grp_index)
  IN IF InList(parent_grp_children, -grp_index)
     THEN _set_grp_children(s, parent_grp_index, ListPop(parent_grp_children, -grp_index))
     ELSE s

RECURSIVE delete_grp_rec(_, _, _, _), delete_children_loop(_, _, _, _, _)
delete_grp_rec(s, grp_index, clean, depth) ==
  IF depth = 0 THEN Raise(s, "RecursionError")
  ELSE IF _check_grp_validation(s, grp_index) THEN Raise(s, "ValueError")
  ELSE LET s1 == detach_from_parent(s, grp_index)
           emptied == delete_children_loop(s1, _get_grp_children(s1, grp_index), 1, clean, depth)
       IN IF emptied.err # "" THEN emptied
          ELSE Ok(remove_grp_record(emptied.st, grp_index))

\* the loop without its recursion into nested groups
RECURSIVE delete_children_targets_only(_, _, _, _, _)
delete_children_targets_only(s, children_indices, i, clean, depth) ==
  IF i > Len(children_indices) THEN Ok(s)
  ELSE LET index == children_indices[i] IN
       delete_children_targets_only(IF index < 0 THEN s ELSE delete_target(s, index, clean),
                                    children_indices, i + 1, clean, depth)

delete_children_loop(s, children_indices, i, clean, depth) ==
  IF i > Len(children_indices) THEN Ok(s)
  ELSE LET index == children_indices[i] IN
       IF index < 0
       THEN LET nested == delete_grp_rec(s, -index, clean, depth - 1)
            IN IF nested.err # "" THEN nested
               ELSE delete_children_loop(nested.st, children_indices, i + 1, clean, depth)
       ELSE delete_children_loop(delete_target(s, index, clean), children_indices, i + 1, clean, depth)

delete_grp(s, grp_index, clean) == delete_grp_rec(s, grp_index, clean, RecursionLimit + 1)

(* ------------------------ the hierarchy's invariants ------------------- *)
\* the root's parentIndex stays at its default, which stands for "no parent"
HasParent(s, g) == g # 0 \/ s.parent[0] # 0

\* the groups reached from g by following parent links n times or fewer
RECURSIVE AncestorsWithin(_, _, _)
AncestorsWithin(s, g, n) ==
  IF n = 0 \/ ~HasParent(s, g) THEN {}
  ELSE {s.parent[g]} \cup AncestorsWithin(s, s.parent[g], n - 1)

Ancestors(s, g) == AncestorsWithin(s, g, MaxGrp + 1)

\* I2 and I3
LinksConsistent(s) ==
  /\ \A g \in s.grps \ {0} : Count(s.children[s.parent[g]], -g) = 1
  /\ \A t \in s.tgts : Count(s.children[s.tparent[t]], t) = 1

\* I4
Acyclic(s) ==
  \A g \in s.grps :
    /\ g \notin Ancestors(s, g)
    /\ \A a \in Ancestors(s, g) \ {0} : ~InList(s.children[g], -a)

\* I1, I6 and single ownership
RefsExist(s) ==
  /\ \A g \in s.grps \ {0} : s.parent[g] \in s.grps
  /\ \A g \in s.grps : \A i \in 1..Len(s.children[g]) :
        LET e == s.children[g][i] IN
        IF e < 0 THEN -e \in s.grps /\ s.parent[-e] = g
        ELSE e \in s.tgts /\ s.tparent[e] = g

\* the root exists and has no parent
RootIntact(s) == 0 \in s.grps /\ s.parent[0] = 0

\* I5
UniqueSiblingNames(s) ==
  \A g, h \in s.grps \ {0} : (g # h /\ s.parent[g] = s.parent[h]) => s.name[g] # s.name[h]

\* a consistent tree
WellFormed(s) == RootIntact(s) /\ LinksConsistent(s) /\ Acyclic(s) /\ RefsExist(s)

(* ---------------------------- state machine --------------------------- *)
\* st is the node's attribute storage.  While a call is being observed, pre,
\* call and ret hold the storage it started from, its arguments and its
\* outcome; Idle ends the observation, and the next call starts from st.
\* ncalls counts the calls made.  Calls are made on a consistent tree: a call
\* that leaves the tree inconsistent is observed and is the last one.
Call(op, indices, grp, nm, clean) ==
  [op |-> op, indices |-> indices, grp |-> grp, name |-> nm, clean |-> clean]

Outcome(r) == [err |-> r.err, idx |-> r.idx, name |-> r.name, list |-> r.list, warned |-> r.warned]

\* a blendShape with its targets, all under the root group, and no other group
InitStore ==
  [EmptyStore EXCEPT !.grps = {0}, !.name[0] = "Group", !.tgts = TgtIds,
                     !.children[0] = [i \in 1..(MaxTgt + 1) |-> i - 1]]

NoCall == Call("idle", <<>>, 0, "", FALSE)

\* a move_targets call run one statement at a time: its arguments, where it
\* stands, and its locals child_indices, the loop's position i,
\* old_parent_index and parent_child_indices
Proc(indices, grp_index, pc) ==
  [indices |-> indices, grp |-> grp_index, pc |-> pc, child_indices |-> <<>>, i |-> 1,
   old_parent_index |-> 0, parent_child_indices |-> <<>>]

Procs == 1..2

NoProcs == [p \in Procs |-> Proc(<<>>, 0, "idle")]

Init ==
  /\ st = InitStore
  /\ pre = InitStore
  /\ call = NoCall
  /\ ret = Outcome(Ok(InitStore))
  /\ ncalls = 0
  /\ frames = <<>>
  /\ procs = NoProcs
  /\ overlapped = FALSE

Idle ==
  /\ call # NoCall
  /\ frames = <<>>
  /\ \A p \in Procs : procs[p].pc \in {"idle", "done"}
  /\ st' = st
  /\ pre' = st
  /\ call' = NoCall
  /\ ret' = Outcome(Ok(st))
  /\ ncalls' = ncalls
  /\ procs' = NoProcs
  /\ overlapped' = FALSE
  /\ UNCHANGED frames

Do(c, r) ==
  /\ st' = r.st
  /\ pre' = st
  /\ call' = c
  /\ ret' = Outcome(r)
  /\ ncalls' = ncalls + 1
  /\ UNCHANGED <<frames, procs, overlapped>>

\* a call can be made
Callable == call = NoCall /\ WellFormed(st) /\ ncalls < MaxCalls

CreateGrp ==
  /\ Callable
  /\ _next_grp_index(st) <= MaxGrp
  /\ \E parent \in GrpIds, targets \in ListsUpTo(TgtIds, MaxBatch), nm \in Names :
       Do(Call("create_grp", targets, parent, nm, FALSE), create_grp(st, parent, targets, nm))

MoveGrps ==
  /\ Callable
  /\ \E indices \in ListsUpTo(GrpIds, MaxBatch), grp \in GrpIds :
       Do(Call("move_grps", indices, grp, "", FALSE), move_grps(st, indices, grp))

MoveTargets ==
  /\ Callable
  /\ \E indices \in ListsUpTo(TgtIds, MaxBatch), grp \in GrpIds :
       Do(Call("move_targets", indices, grp, "", FALSE), move_targets(st, indices, grp))

RenameGrp ==
  /\ Callable
  /\ \E grp \in GrpIds, nm \in Names :
       Do(Call("rename_grp", <<>>, grp, nm, FALSE), rename_grp(st, grp, nm))

DeleteGrp ==
  /\ Callable
  /\ \E grp \in GrpIds, clean \in BOOLEAN :
       Do(Call("delete_grp", <<>>, grp, "", clean), delete_grp(st, grp, clean))

DeleteTarget ==
  /\ Callable
  /\ \E index \in TgtIds, clean \in BOOLEAN :
       Do(Call("delete_target", <<index>>, 0, "", clean), Ok(delete_target(st, index, clean)))

GetGrpIndices ==
  /\ Callable
  /\ \E grp \in GrpIds :
       Do(Call("get_grp_indices", <<>>, grp, "", FALSE), get_grp_indices(st, grp))

GetGrpTargetIndices ==
  /\ Callable
  /\ \E grp \in GrpIds :
       Do(Call("get_grp_target_indices", <<>>, grp, "", FALSE), get_grp_target_indices(st, grp))

GetGrpName ==
  /\ Callable
  /\ \E grp \in GrpIds :
       Do(Call("get_grp_name", <<>>, grp, "", FALSE), get_grp_name(st, grp))

Next ==
  \/ CreateGrp
  \/ MoveGrps
  \/ MoveTargets
  \/ RenameGrp
  \/ DeleteGrp
  \/ DeleteTarget
  \/ GetGrpIndices
  \/ GetGrpTargetIndices
  \/ GetGrpName
  \/ Idle

Spec == Init /\ [][Next]_vars

(* ------------------- delete_grp, one statement at a time --------------- *)
\* frames is the stack of the delete_grp activations under way, the innermost
\* last: the group, where the activation stands, and its locals
\* children_indices and the loop's position i.  The host's deletions can fail
\* (RuntimeError), which ends every activation.
Frame(grp_index) == [grp |-> grp_index, pc |-> "validate", children_indices |-> <<>>, i |-> 1]

Top == frames[Len(frames)]

SetTop(f) == [frames EXCEPT ![Len(frames)] = f]

At(pc) == frames # <<>> /\ Top.pc = pc

\* the entry the loop over children_indices stands at, or none
AtChild(f) == f.pc = "loop" /\ f.i <= Len(f.children_indices)

Unwind(err) ==
  /\ frames' = <<>>
  /\ ret' = Outcome(Raise(st, err))
  /\ UNCHANGED <<st, pre, call, ncalls, procs, overlapped>>

DeleteBegin ==
  /\ Callable
  /\ \E grp \in GrpIds, clean \in BOOLEAN :
       /\ frames' = <<Frame(grp)>>
       /\ call' = Call("delete_grp", <<>>, grp, "", clean)
       /\ pre' = st
       /\ ret' = Outcome(Ok(st))
       /\ ncalls' = ncalls + 1
       /\ UNCHANGED <<st, procs, overlapped>>

DeleteValidate ==
  /\ At("validate")
  /\ IF _check_grp_validation(st, Top.grp)
     THEN Unwind("ValueError")
     ELSE frames' = SetTop([Top EXCEPT !.pc = "detach"]) /\ UNCHANGED <<st, pre, call, ret, ncalls, procs, overlapped>>

DeleteDetach ==
  /\ At("detach")
  /\ st' = detach_from_parent(st, Top.grp)
  /\ frames' = SetTop([Top EXCEPT !.pc = "read"])
  /\ UNCHANGED <<pre, call, ret, ncalls, procs, overlapped>>

DeleteReadChildren ==
  /\ At("read")
  /\ frames' = SetTop([Top EXCEPT !.pc = "loop", !.children_indices = _get_grp_children(st, Top.grp), !.i = 1])
  /\ UNCHANGED <<st, pre, call, ret, ncalls, procs, overlapped>>

DeleteNested ==
  /\ At("loop") /\ AtChild(Top) /\ Top.children_indices[Top.i] < 0
  /\ frames' = Append(SetTop([Top EXCEPT !.i = @ + 1]), Frame(-Top.children_indices[Top.i]))
  /\ UNCHANGED <<st, pre, call, ret, ncalls, procs, overlapped>>

DeleteLeaf ==
  /\ At("loop") /\ AtChild(Top) /\ Top.children_indices[Top.i] >= 0
  /\ st' = delete_target(st, Top.children_indices[Top.i], call.clean)
  /\ frames' = SetTop([Top EXCEPT !.i = @ + 1])
  /\ UNCHANGED <<pre, call, ret, ncalls, procs, overlapped>>

DeleteLoopEnd ==
  /\ At("loop") /\ ~AtChild(Top)
  /\ frames' = SetTop([Top EXCEPT !.pc = "remove"])
  /\ UNCHANGED <<st, pre, call, ret, ncalls, procs, overlapped>>

DeleteRemove ==
  /\ At("remove")
  /\ st' = remove_grp_record(st, Top.grp)
  /\ frames' = SubSeq(frames, 1, Len(frames) - 1)
  /\ ret' = Outcome(Ok(st'))
  /\ UNCHANGED <<pre, call, ncalls, procs, overlapped>>

\* the host fails to delete a target or to remove the group's element
DeleteFail ==
  /\ frames # <<>>
  /\ \/ AtChild(Top) /\ Top.children_indices[Top.i] >= 0
     \/ Top.pc = "remove"
  /\ Unwind("RuntimeError")

NextDelete ==
  \/ CreateGrp
  \/ MoveTargets
  \/ Idle
  \/ DeleteBegin
  \/ DeleteValidate
  \/ DeleteDetach
  \/ DeleteReadChildren
  \/ DeleteNested
  \/ DeleteLeaf
  \/ DeleteLoopEnd
  \/ DeleteRemove
  \/ DeleteFail

SpecDelete == Init /\ [][NextDelete]_vars

(* ------------- two move_targets calls, one statement at a time --------- *)
\* the batches of the two calls: the first moves a batch, the second one target
RaceLists(S) == ListsUpTo(S, MaxBatch) \ {<<>>}

RaceSingles(S) == {<<t>> : t \in S}

\* p's call has made a step and is not through
Midway(p) == procs[p].pc \notin {"idle", "validate", "done"}

Other(p) == CHOOSE q \in Procs : q # p

\* p makes a step that leaves it as f and the store as s; the step overlaps
\* with the other call when that one is midway
Step(p, f, s) ==
  /\ procs' = [procs EXCEPT ![p] = f]
  /\ st' = s
  /\ overlapped' = (overlapped \/ Midway(Other(p)))
  /\ ret' = Outcome(Ok(s))
  /\ UNCHANGED <<pre, call, ncalls, frames>>

\* the entry p's loop stands at
Index(f) == f.indices[f.i]

\* two calls are made, on existing targets and existing groups of a tree that
\* create_grp built
RaceBegin ==
  /\ Callable
  /\ ncalls + 2 <= MaxCalls
  /\ \E a \in RaceLists(st.tgts), b \in RaceSingles(st.tgts), ga \in st.grps, gb \in st.grps :
       /\ procs' = [p \in Procs |-> IF p = 1 THEN Proc(a, ga, "validate") ELSE Proc(b, gb, "validate")]
       /\ call' = Call("race", a \o b, ga, "", FALSE)
       /\ pre' = st
       /\ ret' = Outcome(Ok(st))
       /\ ncalls' = ncalls + 2
       /\ overlapped' = FALSE
       /\ UNCHANGED <<st, frames>>

MTValidate ==
  \E p \in Procs :
    /\ procs[p].pc = "validate"
    /\ Step(p, [procs[p] EXCEPT !.pc = IF _check_grp_validation(st, procs[p].grp) THEN "done" ELSE "read"], st)

MTReadChildren ==
  \E p \in Procs :
    /\ procs[p].pc = "read"
    /\ Step(p, [procs[p] EXCEPT !.pc = "loop", !.child_indices = _get_grp_children(st, procs[p].grp), !.i = 1], st)

MTReadParentDirectory ==
  \E p \in Procs :
    /\ procs[p].pc = "loop" /\ procs[p].i <= Len(procs[p].indices)
    /\ Step(p, [procs[p] EXCEPT !.pc = "read_old",
                                 !.child_indices = append_if_absent(@, Index(procs[p])),
                                 !.old_parent_index = get_parent_directory(st, Index(procs[p]))], st)

MTReadOldList ==
  \E p \in Procs :
    /\ procs[p].pc = "read_old"
    /\ Step(p, [procs[p] EXCEPT !.pc = "write_old",
                                 !.parent_child_indices = _get_grp_children(st, procs[p].old_parent_index)], st)

MTWriteOldList ==
  \E p \in Procs :
    /\ procs[p].pc = "write_old"
    /\ LET f == procs[p] IN
       Step(p, [f EXCEPT !.pc = "set_parent", !.parent_child_indices = <<>>],
            IF InList(f.parent_child_indices, Index(f))
            THEN _set_grp_children(st, f.old_parent_index, ListPop(f.parent_child_indices, Index(f)))
            ELSE st)

MTSetParentDirectory ==
  \E p \in Procs :
    /\ procs[p].pc = "set_parent"
    /\ LET f == procs[p] IN
       Step(p, [f EXCEPT !.pc = "loop", !.i = @ + 1, !.old_parent_index = 0],
            set_parent_directory(st, Index(f), f.grp))

MTWriteChildren ==
  \E p \in Procs :
    /\ procs[p].pc = "loop" /\ procs[p].i > Len(procs[p].indices)
    /\ LET f == procs[p] IN
       Step(p, [f EXCEPT !.pc = "done", !.child_indices = <<>>, !.i = 1],
            _set_grp_children(st, f.grp, f.child_indices))

NextRace ==
  \/ CreateGrp
  \/ Idle
  \/ RaceBegin
  \/ MTValidate
  \/ MTReadChildren
  \/ MTReadParentDirectory
  \/ MTReadOldList
  \/ MTWriteOldList
  \/ MTSetParentDirectory
  \/ MTWriteChildren

SpecRace == Init /\ [][NextRace]_vars

(* ------------------------------ properties ----------------------------- *)
\* the groups of g's subtree, g included, and the targets in it
Subtree(s, g) == {h \in s.grps : h = g \/ g \in Ancestors(s, h)}

SubtreeTargets(s, g) == {t \in s.tgts : s.tparent[t] \in Subtree(s, g)}

Elems(lst) == {lst[i] : i \in 1..Len(lst)}

\* the observed call names only groups and targets that exist
ValidArgs ==
  CASE call.op = "move_grps" -> Elems(call.indices) \subseteq pre.grps /\ call.grp \in pre.grps
    [] call.op \in {"move_targets", "create_grp"} -> Elems(call.indices) \subseteq pre.tgts /\ call.grp \in pre.grps
    [] OTHER -> call.grp \in pre.grps

\* the operations of the invariant-preservation claims
Mutators == {"create_grp", "move_grps", "move_targets", "rename_grp", "delete_grp"}

\* C1: after any of create_grp, move_grps, move_targets, rename_grp and
\* delete_grp on a consistent tree, every non-root group is listed exactly once
\* by its parent and every target exactly once by its parent (I2, I3).
C1_LinksPreserved ==
  (call.op \in Mutators /\ WellFormed(pre) /\ ValidArgs) => LinksConsistent(st)

\* C2: after any of those operations on a consistent tree no group is its own
\* ancestor and no group lists one of its ancestors as a child (I4).
C2_AcyclicPreserved ==
  (call.op \in Mutators /\ WellFormed(pre) /\ ValidArgs) => Acyclic(st)

\* C3: move_grps([e], dest) with dest = e or dest a descendant of e changes
\* nothing in the store and reports e as skipped.
C3_CycleRejected ==
  (/\ call.op = "move_grps" /\ Len(call.indices) = 1
   /\ call.indices[1] \in pre.grps /\ call.grp \in pre.grps
   /\ (call.grp = call.indices[1] \/ call.indices[1] \in Ancestors(pre, call.grp)))
  => (st = pre /\ ret.err = "" /\ ret.warned = call.indices)

\* a non-root group lists the root as its child
RootListed(s) == \E g \in s.grps \ {0} : s.parent[0] = g /\ InList(s.children[g], 0)

\* C4: after any public operation with any arguments the root record exists,
\* its parent reference is unchanged and no group lists the root as a child.
C4_RootImmutable == RootIntact(st) /\ ~RootListed(st)

\* C5: after any of create_grp, rename_grp, move_grps and delete_grp on a tree
\* with pairwise-distinct sibling names, sibling names are pairwise distinct (I5).
C5_SiblingNamesPreserved ==
  (/\ call.op \in {"create_grp", "rename_grp", "move_grps", "delete_grp"}
   /\ WellFormed(pre) /\ UniqueSiblingNames(pre) /\ ValidArgs)
  => UniqueSiblingNames(st)

\* C6: after any of the mutators on a consistent tree every parent is an
\* existing group and every child-list entry names an existing record whose
\* parent field is the listing group (I1, I6, single ownership).
C6_RefsPreserved ==
  (call.op \in Mutators /\ WellFormed(pre) /\ ValidArgs) => RefsExist(st)

\* C7: delete_grp(g) of a non-root group of a consistent tree removes exactly
\* the groups and targets of g's subtree, removes -g from the child list of g's
\* former parent, and lowers the group count by the size of the subtree.
C7_CascadingDelete ==
  (call.op = "delete_grp" /\ call.grp \in pre.grps \ {0} /\ WellFormed(pre)) =>
    /\ ret.err = ""
    /\ st.grps = pre.grps \ Subtree(pre, call.grp)
    /\ st.tgts = pre.tgts \ SubtreeTargets(pre, call.grp)
    /\ ~InList(st.children[pre.parent[call.grp]], -call.grp)
    /\ get_grp_count(pre) - get_grp_count(st) = Cardinality(Subtree(pre, call.grp))

\* a delete_grp that removed a group holding a nested group and a target that
\* is nested deeper than the group itself, while a target outside it stayed
C7_Witness ==
  /\ call.op = "delete_grp" /\ call.grp \in pre.grps \ {0} /\ WellFormed(pre)
  /\ Cardinality(Subtree(pre, call.grp)) >= 2
  /\ \E t \in SubtreeTargets(pre, call.grp) : pre.tparent[t] # call.grp
  /\ \E t \in pre.tgts : t \notin SubtreeTargets(pre, call.grp) /\ t \in st.tgts
  /\ call.grp \notin st.grps

\* the names of the other groups under g's parent
SiblingNames(s, g) == {s.name[h] : h \in {k \in s.grps \ {0, g} : HasParent(s, g) /\ s.parent[k] = s.parent[g]}}

\* n, or n followed by the smallest k >= 1 that makes it differ from taken
ResolvedName(taken, n) ==
  IF n \notin taken THEN n
  ELSE LET k == CHOOSE k \in 1..(MaxGrp + 1) :
                  /\ (n \o ToString(k)) \notin taken
                  /\ \A j \in 1..(k - 1) : (n \o ToString(j)) \in taken
       IN n \o ToString(k)

\* C8: rename_grp(g, n) returns n, or n with the smallest free suffix, judged
\* against the names of g's siblings; the returned name is g's name afterwards
\* and differs from every sibling's.
C8_RenameResolution ==
  (call.op = "rename_grp" /\ call.grp \in pre.grps) =>
    /\ ret.name = ResolvedName(SiblingNames(pre, call.grp), call.name)
    /\ get_grp_name(st, call.grp).name = ret.name
    /\ ret.name \notin SiblingNames(st, call.grp)

\* the operations that take a group index
GroupOps ==
  {"get_grp_indices", "get_grp_target_indices", "get_grp_name", "rename_grp",
   "delete_grp", "move_grps", "move_targets", "create_grp"}

\* C9: an operation given a group index that has no record raises the
\* unknown-group error and leaves the store as it was.
C9_UnknownGroupNoEffect ==
  (call.op \in GroupOps /\ call.grp \notin pre.grps) => (ret.err = "ValueError" /\ st = pre)

\* create_grp under a parent that does not exist, with targets to place
C9_Witness ==
  /\ call.op = "create_grp" /\ call.grp \notin pre.grps /\ Len(call.indices) > 0
  /\ ret.err = "ValueError"

\* C10: move_targets([L], G) of an existing target to an existing group leaves
\* a store that a second move_targets([L], G) does not change, with L exactly
\* once in G's child list.
C10_LeafMoveIdempotent ==
  (/\ call.op = "move_targets" /\ Len(call.indices) = 1
   /\ call.indices[1] \in pre.tgts /\ call.grp \in pre.grps /\ WellFormed(pre))
  => /\ ret.err = ""
     /\ move_targets(st, call.indices, call.grp).st = st
     /\ Count(st.children[call.grp], call.indices[1]) = 1

\* a target moved from another group into a group that already had a child
C10_Witness ==
  /\ call.op = "move_targets" /\ Len(call.indices) = 1
  /\ call.indices[1] \in pre.tgts /\ call.grp \in pre.grps /\ WellFormed(pre)
  /\ pre.tparent[call.indices[1]] # call.grp
  /\ Len(pre.children[call.grp]) > 0
  /\ st.tparent[call.indices[1]] = call.grp

\* lst names no element twice
Distinct(lst) == \A i, j \in 1..Len(lst) : lst[i] = lst[j] => i = j

\* the names of the groups under p
ChildGroupNames(s, p) == {s.name[h] : h \in {x \in s.grps \ {0} : s.parent[x] = p}}

\* C11: create_grp(p, ls, n) with an existing parent p and distinct existing
\* targets ls returns an index k that had no record; afterwards k exists, the
\* group count is one larger, k's parent is p, -k is the last entry of p's child
\* list and occurs once, k's targets are ls in the given order, every target of
\* ls has parent k and is gone from its previous parent's list, and k is named
\* n when no group under p was named n.
C11_CreatePostcondition ==
  (/\ call.op = "create_grp" /\ call.grp \in pre.grps
   /\ Elems(call.indices) \subseteq pre.tgts /\ Distinct(call.indices))
  => LET k == ret.idx
         kids == st.children[call.grp] IN
     /\ ret.err = ""
     /\ k \notin pre.grps /\ k \in st.grps
     /\ get_grp_count(st) = get_grp_count(pre) + 1
     /\ st.parent[k] = call.grp
     /\ Len(kids) > 0 /\ kids[Len(kids)] = -k /\ Count(kids, -k) = 1
     /\ get_grp_target_indices(st, k).list = call.indices
     /\ \A t \in Elems(call.indices) :
          st.tparent[t] = k /\ ~InList(st.children[pre.tparent[t]], t)
     /\ (call.name \notin ChildGroupNames(pre, call.grp) => get_grp_name(st, k).name = call.name)

\* a group created under a non-root parent that held a target, taking that
\* target and one from elsewhere
C11_Witness ==
  /\ call.op = "create_grp" /\ call.grp \in pre.grps \ {0}
  /\ Elems(call.indices) \subseteq pre.tgts /\ Distinct(call.indices)
  /\ Len(call.indices) = 2
  /\ \E t \in Elems(call.indices) : pre.tparent[t] = call.grp
  /\ \E t \in Elems(call.indices) : pre.tparent[t] # call.grp
  /\ ret.err = "" /\ ret.idx \in st.grps
  /\ get_grp_target_indices(st, ret.idx).list = call.indices

\* C12: rename_grp(g, n) of a group already named n, none of whose siblings is
\* named n, returns n and leaves g named n.
C12_RenameToOwnName ==
  (/\ call.op = "rename_grp" /\ call.grp \in pre.grps
   /\ pre.name[call.grp] = call.name /\ call.name \notin SiblingNames(pre, call.grp))
  => (ret.err = "" /\ ret.name = call.name /\ st.name[call.grp] = call.name)

\* move_grps leaves e where it is: e is the destination or one of its ancestors
Rejected(s, e, dest) == e = dest \/ e \in Ancestors(s, dest)

\* C13: move_grps(indices, dest) of existing groups to an existing group leaves
\* every element that is dest or an ancestor of dest with its parent and its
\* entry in its parent's list as they were; every other element ends with
\* parent dest, its entry once in dest's list and no entry in the list of its
\* previous parent when that is not dest.
C13_BestEffortMove ==
  (call.op = "move_grps" /\ ValidArgs /\ WellFormed(pre)) =>
    /\ ret.err = ""
    /\ \A e \in Elems(call.indices) :
         IF Rejected(pre, e, call.grp)
         THEN /\ st.parent[e] = pre.parent[e]
              /\ HasParent(pre, e) =>
                   Count(st.children[pre.parent[e]], -e) = Count(pre.children[pre.parent[e]], -e)
         ELSE /\ st.parent[e] = call.grp
              /\ Count(st.children[call.grp], -e) = 1
              /\ pre.parent[e] # call.grp => ~InList(st.children[pre.parent[e]], -e)

\* C14: move_grps(indices, dest) with an existing dest and an element that has
\* no record raises the unknown-group error and creates no group record.
C14_UnknownElementNoRecord ==
  (/\ call.op = "move_grps" /\ call.grp \in pre.grps
   /\ \E e \in Elems(call.indices) : e \notin pre.grps)
  => (ret.err = "ValueError" /\ st.grps = pre.grps /\ get_grp_count(st) = get_grp_count(pre))

\* the part of lst after its first n elements
Rest(lst, n) == SubSeq(lst, n + 1, Len(lst))

\* C17: move_targets(indices, dest) of existing targets to an existing group
\* changes only the parent fields of the targets of indices, dest's child list,
\* which gains at its end the targets it did not hold, in batch order, and the
\* child lists of their previous parents, which lose exactly the moved targets;
\* names, group parents, the other lists, the order of the entries that stay
\* and the sets of group and target records are as before.
C17_LeafMoveFrame ==
  (call.op = "move_targets" /\ ValidArgs) =>
    LET moved == Elems(call.indices)
        old == pre.children[call.grp]
        new == st.children[call.grp]
        gained == Rest(new, Len(old))
    IN /\ ret.err = ""
       /\ st.grps = pre.grps /\ st.tgts = pre.tgts
       /\ st.name = pre.name /\ st.parent = pre.parent
       /\ \A t \in TgtIds : st.tparent[t] = IF t \in moved THEN call.grp ELSE pre.tparent[t]
       /\ Len(new) >= Len(old) /\ SubSeq(new, 1, Len(old)) = old
       /\ Distinct(gained) /\ Elems(gained) = moved \ Elems(old)
       /\ \A i, j \in 1..Len(gained) :
            i < j => ListIndex(call.indices, gained[i]) < ListIndex(call.indices, gained[j])
       /\ \A g \in GrpIds \ {call.grp} :
            st.children[g] = SelectSeq(pre.children[g], LAMBDA x : x \notin moved)

\* two targets of two different groups moved, last one first, into a third
\* group that held neither
C17_Witness ==
  /\ call.op = "move_targets" /\ ValidArgs /\ WellFormed(pre)
  /\ Len(call.indices) = 2 /\ call.indices[1] > call.indices[2]
  /\ pre.tparent[call.indices[1]] # pre.tparent[call.indices[2]]
  /\ \A t \in Elems(call.indices) : pre.tparent[t] # call.grp
  /\ Rest(st.children[call.grp], Len(pre.children[call.grp])) = call.indices

\* the parent chain of g, nearest first, from g's parent up to the root
RECURSIVE ParentChain(_, _, _)
ParentChain(s, g, n) ==
  IF n = 0 \/ ~HasParent(s, g) THEN <<>>
  ELSE <<s.parent[g]>> \o ParentChain(s, s.parent[g], n - 1)

\* C18: for an existing group g of an acyclic tree _grp_parent_iterator(g)
\* yields, nearest first, exactly the groups of the parent chain from g's
\* parent up to the root, never g; move_grps rejects an element exactly when it
\* is dest or is yielded for dest.  Observed at move_grps, which takes the walk
\* from its destination.
C18_AncestorWalk ==
  (call.op = "move_grps" /\ ValidArgs /\ WellFormed(pre)) =>
    LET walk == _grp_parent_iterator(pre, call.grp, RecursionLimit) IN
    /\ walk = ParentChain(pre, call.grp, MaxGrp + 1)
    /\ ~InList(walk, call.grp)
    /\ Elems(ret.warned) = {e \in Elems(call.indices) : e = call.grp \/ InList(walk, e)}

\* C19: delete_target(t) is one call of the host's procedure and writes no
\* child list, parent reference or name itself; when the host removes only the
\* target's record, the group that held t still lists t afterwards.
C19_DeleteLeafDelegates ==
  (call.op = "delete_target" /\ call.indices[1] \in pre.tgts) =>
    LET t == call.indices[1] IN
    /\ st = blendShapeDeleteTargetGroup(pre, t, call.clean)
    /\ st.parent = pre.parent /\ st.name = pre.name /\ st.grps = pre.grps
    /\ ~call.clean => (st.children = pre.children /\ InList(st.children[pre.tparent[t]], t))

\* a target of a non-root group deleted by a host that removes only its record
C19_Witness ==
  /\ call.op = "delete_target" /\ call.indices[1] \in pre.tgts /\ WellFormed(pre)
  /\ ~call.clean /\ pre.tparent[call.indices[1]] # 0
  /\ call.indices[1] \notin st.tgts
  /\ InList(st.children[pre.tparent[call.indices[1]]], call.indices[1])

\* C20: move_grps(indices, dest) of existing non-root groups to an existing
\* group of a consistent tree leaves a store that the same move_grps does not
\* change, with no element's entry twice in dest's child list.
C20_GroupMoveIdempotent ==
  (/\ call.op = "move_grps" /\ 0 \notin Elems(call.indices)
   /\ ValidArgs /\ WellFormed(pre))
  => /\ ret.err = ""
     /\ move_grps(st, call.indices, call.grp).st = st
     /\ \A e \in Elems(call.indices) : Count(st.children[call.grp], -e) <= 1

\* a batch that names a group twice, moved to another group from elsewhere
C20_Witness ==
  /\ call.op = "move_grps" /\ ValidArgs /\ WellFormed(pre)
  /\ Len(call.indices) = 2 /\ call.indices[1] = call.indices[2]
  /\ call.indices[1] # 0 /\ call.grp # 0
  /\ pre.parent[call.indices[1]] # call.grp
  /\ st.parent[call.indices[1]] = call.grp

\* a child list of an existing group holds the entry of a group without record
DanglingGroupEntry(s) ==
  \E h \in s.grps : \E i \in 1..Len(s.children[h]) :
    s.children[h][i] < 0 /\ -s.children[h][i] \notin s.grps

\* a record of g's subtree, as it was when delete_grp was called, is gone
SubtreeTouched(g) ==
  \/ \E x \in Subtree(pre, g) : x \notin st.grps
  \/ \E t \in SubtreeTargets(pre, g) : t \notin st.tgts

\* C15: while delete_grp(g) runs, for g and every nested group it deletes, the
\* group's entry has left its parent's child list before any record of the
\* group's subtree is removed; so at every step, and after a failed removal,
\* no existing group's child list holds the entry of a removed group.
C15_DetachFirst ==
  /\ ~DanglingGroupEntry(st)
  /\ \A k \in 1..Len(frames) :
       LET g == frames[k].grp IN
       (g \in pre.grps \ {0} /\ SubtreeTouched(g)) => ~InList(st.children[pre.parent[g]], -g)

\* a delete_grp that failed after a nested group's record was removed and
\* before the group's own was
C15_Witness ==
  /\ call.op = "delete_grp" /\ ret.err = "RuntimeError" /\ frames = <<>>
  /\ call.grp \in st.grps \ {0}
  /\ \E x \in Subtree(pre, call.grp) \ {call.grp} : x \notin st.grps
  /\ ~InList(st.children[pre.parent[call.grp]], -call.grp)

\* both calls of the race are through
RaceDone == call.op = "race" /\ \A p \in Procs : procs[p].pc = "done"

\* a target moved by p has p's destination as its parent and no entry in the
\* destination's child list
LostUpdate(p) ==
  \E t \in Elems(procs[p].indices) :
    st.tparent[t] = procs[p].grp /\ ~InList(st.children[procs[p].grp], t)

\* C16: two move_targets calls whose reads and writes interleave can end with a
\* moved target whose parent is the destination and whose entry is missing
\* from the destination's child list; the two calls run one after the other,
\* in either order, never end so.
C16_LostUpdateOnlyInterleaved ==
  (RaceDone /\ \E p \in Procs : LostUpdate(p)) => overlapped

\* two calls with the same destination and different targets, interleaved,
\* after which the first one's target has lost its entry
C16_Witness ==
  /\ RaceDone /\ overlapped
  /\ procs[1].grp = procs[2].grp
  /\ Elems(procs[1].indices) \cap Elems(procs[2].indices) = {}
  /\ LostUpdate(1) /\ ~LostUpdate(2)

====
